---- MODULE Spec2Model ----
(***************************************************************************)
(* Model of the App component of src/types.ts: the claim workflow          *)
(* (handleFileUpload, performA2AHandshake, resetWorkflow) as the event     *)
(* loop runs it.  Every action is one run-to-completion block of           *)
(* JavaScript: the code between two suspension points (reader.onloadend,   *)
(* await analyzeDamage, await setTimeout).  The React state setters called *)
(* inside one block are batched, so a block is one atomic step.            *)
(*                                                                         *)
(* Left out: HandshakeLog.timestamp (wall-clock text, read by no branch),  *)
(* the DamageReport fields other than estimatedCost (carried unchanged),   *)
(* and the markup below line 154 other than its rendering conditions.      *)
(***************************************************************************)
EXTENDS Integers, Sequences, FiniteSets, TLC

\* ------------------------------------------------------------------ bounds
MaxUploads == 2
NumRefIds == 2

\* --------------------------------------------------------------- constants
APPROVAL_THRESHOLD == 5000

\* estimatedCost values analyzeDamage may return: one below the threshold and
\* the threshold itself (a higher cost takes the branch the threshold takes)
Costs == {3200, 5000}

RefIds == 1..NumRefIds
Tasks == 1..MaxUploads

\* WorkflowStep
IDLE == "IDLE"
UPLOADING == "UPLOADING"
GEMINI_ANALYSIS == "GEMINI_ANALYSIS"
A2A_HANDSHAKE == "A2A_HANDSHAKE"
COMPLETED == "COMPLETED"
WorkflowStep == {IDLE, UPLOADING, GEMINI_ANALYSIS, A2A_HANDSHAKE, COMPLETED}

\* null and a present value of a `T | null` state cell
Null == <<>>
Some(x) == <<x>>

VARIABLES
  step,        \* useState<WorkflowStep>
  report,      \* useState<DamageReport | null>
  logs,        \* useState<HandshakeLog[]>
  result,      \* useState<ClaimResult | null>
  previewUrl,  \* useState<string | null>: 0 is null, t the data URL of upload t
  task,        \* the pending continuation of each accepted upload (a
               \* continuation that has returned keeps nothing)
  nTasks,      \* number of uploads accepted so far
  issued,      \* the referenceIds of the ClaimResults created so far
  event        \* the last handler that ran, and the step it ran in

vars == <<step, report, logs, result, previewUrl, task, nTasks, issued, event>>
ui == <<step, report, logs, result>>

\* A DamageReport object; id is the identity of the object analyzeDamage made
DamageReport(t, c) == [id |-> t, estimatedCost |-> c]

NoTask ==
  [pc |-> "none", report |-> Null, isApproved |-> FALSE, hsSeq |-> 0,
   clean |-> TRUE, stale |-> FALSE, calls |-> 0]

\* position of a continuation in performA2AHandshake: which timer it awaits
Stage(pc) ==
  CASE pc = "wait1" -> 1
    [] pc = "wait2" -> 2
    [] pc = "wait3" -> 3
    [] OTHER -> 0

Pending(t) == task[t].pc \in {"reading", "analyzing", "wait1", "wait2", "wait3"}
InHandshake(t) == task[t].pc \in {"wait1", "wait2", "wait3"}

\* setTimeout: runs started earlier reach each timer earlier, the delays
\* being the same constants for every run
TimerDue(t) ==
  \A u \in Tasks :
    (InHandshake(u) /\ task[u].hsSeq < task[t].hsSeq)
      => Stage(task[u].pc) > Stage(task[t].pc)

\* the rank of the next run among the runs still awaiting a timer
NextHsSeq ==
  LET running == {task[u].hsSeq : u \in {v \in Tasks : InHandshake(v)}}
  IN  IF running = {} THEN 1
      ELSE (CHOOSE m \in running : \A k \in running : k <= m) + 1

addLogPrepend(log) == <<log>> \o logs
addLog(log) == Append(logs, log)

\* the three messages of performA2AHandshake
ProposeClaim(r) ==
  [from |-> "GoogleAgent", to |-> "SalesforceAgent", protocol |-> "A2A",
   status |-> "SENT",
   payload |-> [method |-> "PROPOSE_CLAIM", assessment |-> r,
                agent_version |-> "Gemini-3-Pro-Handshake-V1"]]

IsApprovedLe(r) == r.estimatedCost <= APPROVAL_THRESHOLD
IsApproved(r) == r.estimatedCost < APPROVAL_THRESHOLD

EvaluatePolicy(approved) ==
  [from |-> "SalesforceAgent", to |-> "GoogleAgent", protocol |-> "A2A",
   status |-> "PROCESSED",
   payload |-> [method |-> "EVALUATE_POLICY",
                result |-> IF approved THEN "AUTO_APPROVE"
                           ELSE "REQUIRE_MANUAL_REVIEW",
                threshold_applied |-> APPROVAL_THRESHOLD]]

InitiatePayment(r) ==
  [from |-> "SalesforceAgent", to |-> "SalesforceAgent", protocol |-> "AP2",
   status |-> "SENT",
   payload |-> [method |-> "INITIATE_PAYMENT", amount |-> r.estimatedCost,
                currency |-> "USD",
                settlement_network |-> "FED_INSTANT_SETTLEMENT"]]

ClaimResult(approved, ref, r) ==
  [status |-> IF approved THEN "APPROVED" ELSE "MANUAL_REVIEW",
   paymentInitiated |-> approved, referenceId |-> ref, report |-> r]

\* bookkeeping, read by no handler: a handler of upload t (0: the reset
\* button) ran.  clean: no reset and no handler of another upload has run
\* since this run of performA2AHandshake began.  stale: resetWorkflow ran
\* while this upload was still pending.
Disturb(tk, t) ==
  [u \in Tasks |->
     [tk[u] EXCEPT
        !.clean = @ /\ ~(u # t /\ tk[u].pc \in {"wait1", "wait2", "wait3"}),
        !.stale = @ \/ (t = 0 /\ tk[u].pc \in
                          {"reading", "analyzing", "wait1", "wait2", "wait3"})]]

Init ==
  /\ step = IDLE
  /\ report = Null
  /\ logs = <<>>
  /\ result = Null
  /\ previewUrl = 0
  /\ task = [t \in Tasks |-> NoTask]
  /\ nTasks = 0
  /\ issued = {}
  /\ event = [op |-> "init", t |-> 0, from |-> IDLE]

\* the upload area, and the file input in it, exist only while step is IDLE
UploadAreaRenderedAlways == TRUE
UploadAreaRendered == step = IDLE

\* handleFileUpload, event.target.files empty, without the early return:
\* setStep(UPLOADING), then readAsDataURL throws and no read is started
handleFileUploadNoFileUnguarded ==
  /\ UploadAreaRendered
  /\ step' = UPLOADING
  /\ event' = [op |-> "uploadNoFile", t |-> 0, from |-> step]
  /\ UNCHANGED <<report, logs, result, previewUrl, task, nTasks, issued>>

\* handleFileUpload, event.target.files empty: `if (!file) return`
handleFileUploadNoFile ==
  /\ UploadAreaRendered
  /\ event' = [op |-> "uploadNoFile", t |-> 0, from |-> step]
  /\ UNCHANGED <<step, report, logs, result, previewUrl, task, nTasks, issued>>

\* handleFileUpload with a file, up to reader.readAsDataURL(file)
handleFileUpload ==
  /\ nTasks < MaxUploads
  /\ UploadAreaRendered
  /\ LET t == nTasks + 1 IN
       /\ step' = UPLOADING
       /\ nTasks' = t
       /\ task' = [Disturb(task, t) EXCEPT ![t] = [NoTask EXCEPT !.pc = "reading"]]
       /\ event' = [op |-> "upload", t |-> t, from |-> step]
  /\ UNCHANGED <<report, logs, result, previewUrl, issued>>

\* the user tries to upload while the upload area is not rendered
uploadAttemptNoInput ==
  /\ nTasks < MaxUploads
  /\ ~UploadAreaRendered
  /\ event' = [op |-> "uploadIgnored", t |-> 0, from |-> step]
  /\ UNCHANGED <<step, report, logs, result, previewUrl, task, nTasks, issued>>

\* reader.onloadend up to the call of analyzeDamage
readerOnLoadEnd(t) ==
  /\ task[t].pc = "reading"
  /\ previewUrl' = t
  /\ step' = GEMINI_ANALYSIS
  /\ task' = [Disturb(task, t) EXCEPT ![t].pc = "analyzing",
                                     ![t].calls = @ + 1]
  /\ event' = [op |-> "loadend", t |-> t, from |-> step]
  /\ UNCHANGED <<report, logs, result, nTasks, issued>>

\* analyzeDamage resolved: setReport, setStep, and performA2AHandshake up to
\* its first await
analyzeDamageResolved(t, c) ==
  /\ task[t].pc = "analyzing"
  /\ LET r == DamageReport(t, c) IN
       /\ report' = Some(r)
       /\ step' = A2A_HANDSHAKE
       /\ logs' = addLog(ProposeClaim(r))
       /\ task' = [Disturb(task, t) EXCEPT ![t] =
                     [pc |-> "wait1", report |-> Some(r), isApproved |-> FALSE,
                      hsSeq |-> NextHsSeq,
                      clean |-> TRUE, stale |-> task[t].stale,
                      calls |-> task[t].calls]]
  /\ event' = [op |-> "analysisOk", t |-> t, from |-> step]
  /\ UNCHANGED <<result, previewUrl, nTasks, issued>>

\* analyzeDamage rejected, with a catch block that calls analyzeDamage again
analyzeDamageRejectedRetry(t) ==
  /\ task[t].pc = "analyzing"
  /\ task' = [Disturb(task, t) EXCEPT ![t].calls = @ + 1]
  /\ event' = [op |-> "analysisFailed", t |-> t, from |-> step]
  /\ UNCHANGED <<step, report, logs, result, previewUrl, nTasks, issued>>

\* analyzeDamage rejected: the catch block
analyzeDamageRejected(t) ==
  /\ task[t].pc = "analyzing"
  /\ step' = IDLE
  /\ task' = [Disturb(task, t) EXCEPT
                ![t] = [NoTask EXCEPT !.pc = "failed", !.calls = task[t].calls]]
  /\ event' = [op |-> "analysisFailed", t |-> t, from |-> step]
  /\ UNCHANGED <<report, logs, result, previewUrl, nTasks, issued>>

\* performA2AHandshake after the first delay: Step 2
evaluatePolicy(t) ==
  /\ task[t].pc = "wait1"
  /\ TimerDue(t)
  /\ LET isApproved == IsApproved(task[t].report[1]) IN
       /\ logs' = addLog(EvaluatePolicy(isApproved))
       /\ task' = [Disturb(task, t) EXCEPT ![t].pc = "wait2",
                                          ![t].isApproved = isApproved]
  /\ event' = [op |-> "evaluate", t |-> t, from |-> step]
  /\ UNCHANGED <<step, report, result, previewUrl, nTasks, issued>>

\* performA2AHandshake after the second delay: Step 3
initiatePayment(t) ==
  /\ task[t].pc = "wait2"
  /\ TimerDue(t)
  /\ IF task[t].isApproved
       THEN /\ logs' = addLog(InitiatePayment(task[t].report[1]))
            /\ task' = [Disturb(task, t) EXCEPT ![t].pc = "wait3"]
       ELSE /\ logs' = logs
            /\ task' = [Disturb(task, t) EXCEPT ![t].pc = "wait3"]
  /\ event' = [op |-> "settle", t |-> t, from |-> step]
  /\ UNCHANGED <<step, report, result, previewUrl, nTasks, issued>>

\* performA2AHandshake after the third delay, without setStep(COMPLETED)
finalizeKeepsStep(t, ref) ==
  /\ task[t].pc = "wait3"
  /\ TimerDue(t)
  /\ result' = Some(ClaimResult(task[t].isApproved, ref, task[t].report[1]))
  /\ task' = [Disturb(task, t) EXCEPT
                ![t] = [NoTask EXCEPT !.pc = "done", !.calls = task[t].calls]]
  /\ issued' = issued \cup {ref}
  /\ event' = [op |-> "finalize", t |-> t, from |-> step,
               report |-> task[t].report[1], clean |-> task[t].clean,
               stale |-> task[t].stale]
  /\ UNCHANGED <<step, report, logs, previewUrl, nTasks>>

\* performA2AHandshake after the third delay: setResult, setStep(COMPLETED)
finalize(t, ref) ==
  /\ task[t].pc = "wait3"
  /\ TimerDue(t)
  /\ result' = Some(ClaimResult(task[t].isApproved, ref, task[t].report[1]))
  /\ step' = COMPLETED
  /\ task' = [Disturb(task, t) EXCEPT
                ![t] = [NoTask EXCEPT !.pc = "done", !.calls = task[t].calls]]
  /\ issued' = issued \cup {ref}
  /\ event' = [op |-> "finalize", t |-> t, from |-> step,
               report |-> task[t].report[1], clean |-> task[t].clean,
               stale |-> task[t].stale]
  /\ UNCHANGED <<report, logs, previewUrl, nTasks>>

\* resetWorkflow: the "Reset System" button, rendered in every step
resetWorkflowKeepLogs == logs
resetWorkflowLogs == <<>>

resetWorkflow ==
  /\ step' = IDLE
  /\ report' = Null
  /\ logs' = resetWorkflowLogs
  /\ result' = Null
  /\ previewUrl' = 0
  /\ task' = Disturb(task, 0)
  /\ event' = [op |-> "reset", t |-> 0, from |-> step]
  /\ UNCHANGED <<nTasks, issued>>

Next ==
  \/ handleFileUploadNoFile
  \/ handleFileUpload
  \/ uploadAttemptNoInput
  \/ \E t \in Tasks : readerOnLoadEnd(t)
  \/ \E t \in Tasks, c \in Costs : analyzeDamageResolved(t, c)
  \/ \E t \in Tasks : analyzeDamageRejected(t)
  \/ \E t \in Tasks : evaluatePolicy(t)
  \/ \E t \in Tasks : initiatePayment(t)
  \/ \E t \in Tasks, ref \in RefIds : finalize(t, ref)
  \/ resetWorkflow

Spec == Init /\ [][Next]_vars

\* setTimeout: while a timer is set, a timer fires and the continuation
\* awaiting it runs
TimerStep ==
  \E t \in Tasks :
    \/ evaluatePolicy(t)
    \/ initiatePayment(t)
    \/ \E ref \in RefIds : finalize(t, ref)

TimersFire == WF_vars(TimerStep)

\* resetWorkflow invoked while no upload has a read, an analysis or a
\* handshake pending
resetBetweenSessions ==
  /\ \A t \in Tasks : ~Pending(t)
  /\ resetWorkflow

\* the handlers, with no reset while a session is in flight
NextNoResetInFlight ==
  \/ handleFileUploadNoFile
  \/ handleFileUpload
  \/ uploadAttemptNoInput
  \/ \E t \in Tasks : readerOnLoadEnd(t)
  \/ \E t \in Tasks, c \in Costs : analyzeDamageResolved(t, c)
  \/ \E t \in Tasks : analyzeDamageRejected(t)
  \/ \E t \in Tasks : evaluatePolicy(t)
  \/ \E t \in Tasks : initiatePayment(t)
  \/ \E t \in Tasks, ref \in RefIds : finalize(t, ref)
  \/ resetBetweenSessions

LiveSpec == Init /\ [][NextNoResetInFlight]_vars /\ TimersFire

\* ------------------------------------------------------------------ claims

\* a run of performA2AHandshake has just returned
RunEnded == event.op = "finalize"

\* C1: a run of performA2AHandshake on a report with estimatedCost below
\* APPROVAL_THRESHOLD, during which no reset and no handler of another upload
\* ran, ends with a transcript of exactly 3 entries and a result that is
\* APPROVED with paymentInitiated true.
C1_ApprovedRunThreeEntries ==
  (RunEnded /\ event.clean
     /\ event.report.estimatedCost < APPROVAL_THRESHOLD)
    => /\ Len(logs) = 3
       /\ result # Null
       /\ result[1].status = "APPROVED"
       /\ result[1].paymentInitiated = TRUE

\* C2: a run of performA2AHandshake on a report with estimatedCost at or
\* above APPROVAL_THRESHOLD ends with a transcript of exactly 2 entries, none
\* of them with protocol AP2, and a result that is MANUAL_REVIEW with
\* paymentInitiated false.
C2_ManualReviewRunTwoEntries ==
  (RunEnded /\ event.report.estimatedCost >= APPROVAL_THRESHOLD)
    => /\ Len(logs) = 2
       /\ \A i \in 1..Len(logs) : logs[i].protocol # "AP2"
       /\ result # Null
       /\ result[1].status = "MANUAL_REVIEW"
       /\ result[1].paymentInitiated = FALSE

IsProposal(e) ==
  /\ e.from = "GoogleAgent" /\ e.to = "SalesforceAgent"
  /\ e.protocol = "A2A" /\ e.status = "SENT"
  /\ e.payload.method = "PROPOSE_CLAIM"

IsEvaluation(e) ==
  /\ e.from = "SalesforceAgent" /\ e.to = "GoogleAgent"
  /\ e.protocol = "A2A" /\ e.status = "PROCESSED"
  /\ e.payload.method = "EVALUATE_POLICY"

IsSettlement(e) ==
  /\ e.protocol = "AP2" /\ e.status = "SENT"
  /\ e.payload.method = "INITIATE_PAYMENT"

\* C3: in every reachable state the transcript is a prefix of proposal,
\* evaluation, settlement: the first entry is the proposal, the second the
\* evaluation, the third (if any) the settlement, and there is no fourth.
C3_TranscriptOrdered ==
  /\ Len(logs) <= 3
  /\ Len(logs) >= 1 => IsProposal(logs[1])
  /\ Len(logs) >= 2 => IsEvaluation(logs[2])
  /\ Len(logs) >= 3 => IsSettlement(logs[3])

\* C4: right after resetWorkflow, whatever step it was invoked in, step is
\* IDLE, report and result are absent and the transcript is empty.
C4_ResetClearsSession ==
  event.op = "reset"
    => step = IDLE /\ report = Null /\ logs = <<>> /\ result = Null

\* C4 witness: resetWorkflow was invoked in COMPLETED, with a result and a
\* transcript to clear
C4_Witness ==
  event.op = "reset" /\ event.from = COMPLETED /\ step = IDLE

\* C5: a handler of an upload that was pending when resetWorkflow ran
\* changes none of step, report, transcript and result.
C5_StaleCompletionDiscarded ==
  [][\A t \in Tasks :
       (task[t].stale /\ task'[t].pc # task[t].pc)
         => UNCHANGED <<step, report, logs, result>>]_vars

\* C6: right after analyzeDamage fails, step is IDLE, report and result are
\* absent, the transcript is empty, and the upload area accepts a new file.
C6_AnalysisFailureReturnsToIdle ==
  event.op = "analysisFailed"
    => /\ step = IDLE /\ report = Null /\ logs = <<>> /\ result = Null
       /\ UploadAreaRendered

\* C7: an upload attempt made while step is not IDLE changes none of step,
\* report, transcript, result and previewUrl, starts no read and no analysis,
\* and leaves every pending continuation where it was.
C7_UploadWhileBusyIsNoOp ==
  [][(step # IDLE /\ event' # event
        /\ event'.op \in {"upload", "uploadIgnored"})
      => UNCHANGED <<step, report, logs, result, previewUrl, task, nTasks>>]_vars

\* C7 witness: an upload was attempted during a handshake that is still
\* pending
C7_Witness ==
  /\ event.op = "uploadIgnored"
  /\ event.from = A2A_HANDSHAKE
  /\ \E t \in Tasks : InHandshake(t)

\* the transition relation of the workflow
StepTransition(from, to, op) ==
  \/ from = IDLE /\ to = UPLOADING
  \/ from = UPLOADING /\ to = GEMINI_ANALYSIS
  \/ from = GEMINI_ANALYSIS /\ to = A2A_HANDSHAKE
  \/ from = A2A_HANDSHAKE /\ to = COMPLETED
  \/ from = GEMINI_ANALYSIS /\ to = IDLE /\ op = "analysisFailed"
  \/ to = IDLE /\ op = "reset"

\* C8: every change of step is a transition of the workflow.
C8_StepFollowsTransitions ==
  [][step' # step => StepTransition(step, step', event'.op)]_vars

\* C9: every PROCESSED entry of the transcript has an earlier SENT entry
\* whose sender is the PROCESSED entry's recipient.
C9_ProcessedHasPriorSent ==
  \A i \in 1..Len(logs) :
    logs[i].status = "PROCESSED"
      => \E j \in 1..(i - 1) :
           logs[j].status = "SENT" /\ logs[j].from = logs[i].to

\* C10: at most one upload has a read, an analysis or a handshake pending.
C10_OneSessionInFlight ==
  Cardinality({t \in Tasks : Pending(t)}) <= 1

\* how far the continuation of an upload has come
PcRank(pc) ==
  CASE pc = "none" -> 0
    [] pc = "reading" -> 1
    [] pc = "analyzing" -> 2
    [] pc = "wait1" -> 3
    [] pc = "wait2" -> 4
    [] pc = "wait3" -> 5
    [] OTHER -> 6

\* C11: the handshake of a report runs once and ends.  No continuation ever
\* goes back to a phase it has passed; and, the timers firing and no reset
\* occurring while the session is in flight, every state with
\* step = A2A_HANDSHAKE is followed by a state with step = COMPLETED and a
\* result present.
C11_HandshakeRunsOnceAndTerminates ==
  /\ [][\A t \in Tasks :
         task'[t].pc # task[t].pc => PcRank(task'[t].pc) > PcRank(task[t].pc)]_vars
  /\ (step = A2A_HANDSHAKE) ~> (step = COMPLETED /\ result # Null)

\* C11 witness: a run that began in A2A_HANDSHAKE has returned, step is
\* COMPLETED and the result is present
C11_Witness ==
  /\ event.op = "finalize" /\ event.from = A2A_HANDSHAKE /\ ~event.stale
  /\ step = COMPLETED /\ result # Null

\* C12: once result is present and step is COMPLETED, no step other than
\* resetWorkflow changes the result or the transcript.
C12_ResultImmutableUntilReset ==
  [][(result # Null /\ step = COMPLETED /\ event'.op # "reset")
      => (result' = result /\ logs' = logs)]_vars

\* the transcript of a run of performA2AHandshake on report r alone, from the
\* initial state
AloneTranscript(r) ==
  <<ProposeClaim(r), EvaluatePolicy(r.estimatedCost < APPROVAL_THRESHOLD)>>
    \o (IF r.estimatedCost < APPROVAL_THRESHOLD
          THEN <<InitiatePayment(r)>> ELSE <<>>)

\* C13: a session started after an earlier one, never reset itself and whose
\* run no other handler disturbed, ends in COMPLETED with the transcript and
\* the ClaimResult (up to its referenceId) of a run on its report alone.
C13_LaterSessionUnaffected ==
  (RunEnded /\ event.t > 1 /\ ~event.stale /\ event.clean)
    => /\ step = COMPLETED
       /\ logs = AloneTranscript(event.report)
       /\ result # Null
       /\ result[1].report = event.report
       /\ result[1].status =
            (IF event.report.estimatedCost < APPROVAL_THRESHOLD
               THEN "APPROVED" ELSE "MANUAL_REVIEW")
       /\ result[1].paymentInitiated =
            (event.report.estimatedCost < APPROVAL_THRESHOLD)

\* C14: whenever result is present, paymentInitiated is true exactly when
\* status is APPROVED, and exactly when the transcript holds an
\* INITIATE_PAYMENT (AP2) entry.
C14_PaymentIffApprovedIffLogged ==
  result # Null
    => /\ result[1].paymentInitiated = (result[1].status = "APPROVED")
       /\ result[1].paymentInitiated
            = (\E i \in 1..Len(logs) : IsSettlement(logs[i]))

\* C15: handleFileUpload with no file selected changes none of step, report,
\* transcript, result and previewUrl, and starts no read and no analysis.
C15_NoFileIsIgnored ==
  [][(event'.op = "uploadNoFile" /\ event' # event)
      => UNCHANGED <<step, report, logs, result, previewUrl, task, nTasks>>]_vars

\* C15 witness: handleFileUpload ran with no file after an earlier session
C15_Witness ==
  event.op = "uploadNoFile" /\ step = IDLE /\ nTasks > 0

C17_ReferenceIdUnique ==
  [][(\E t \in Tasks : task[t].pc = "wait3" /\ task'[t].pc = "done")
      => result'[1].referenceId \notin issued]_vars

\* C18: while step is IDLE, UPLOADING or GEMINI_ANALYSIS the transcript is
\* empty.
C18_TranscriptEmptyBeforeNegotiation ==
  step \in {IDLE, UPLOADING, GEMINI_ANALYSIS} => logs = <<>>

\* C19: every step leaves the transcript as it is, or adds one entry at its
\* end, or is resetWorkflow and empties it.
C19_TranscriptAppendOnly ==
  [][\/ logs' = logs
     \/ /\ Len(logs') = Len(logs) + 1
        /\ SubSeq(logs', 1, Len(logs)) = logs
     \/ event'.op = "reset" /\ logs' = <<>>]_vars

\* C19 witness: an entry was added to a transcript that already had entries
C19_Witness ==
  event.op \in {"evaluate", "settle"} /\ Len(logs) >= 2

\* C20: result is present exactly when step is COMPLETED; in A2A_HANDSHAKE
\* and COMPLETED the report is present; and a present result carries the
\* current report, which is the assessment of every PROPOSE_CLAIM entry and
\* whose estimatedCost is the amount of every INITIATE_PAYMENT entry.
C20_ResultReportTranscriptAgree ==
  /\ (result # Null) = (step = COMPLETED)
  /\ step \in {A2A_HANDSHAKE, COMPLETED} => report # Null
  /\ result # Null
       => /\ report # Null
          /\ result[1].report = report[1]
          /\ \A i \in 1..Len(logs) :
               /\ IsProposal(logs[i])
                    => logs[i].payload.assessment = report[1]
               /\ IsSettlement(logs[i])
                    => logs[i].payload.amount = report[1].estimatedCost
====
